---- MODULE Spec2Model ----
(***************************************************************************)
(* Model of app.py: the tool analyze_air_quality_csv (a pandas summary of  *)
(* an air-quality CSV), the agent runners run_news, run_policy,            *)
(* run_innovations, run_data and synthesize, and the two branches of the   *)
(* Streamlit script.                                                       *)
(*                                                                         *)
(* Library behaviour is that of Python 3.11 and pandas 2.1 or later:       *)
(*   - read_csv types a column as numeric when every cell is a number or   *)
(*     empty, as bool when every cell is True or False, and as object      *)
(*     otherwise, also when the file has no data row; an object column     *)
(*     holds bools and NaN when its cells are True, False or empty, and    *)
(*     strings and NaN in every other case;                                *)
(*   - mean(numeric_only=True) drops object columns; Series.mean skips     *)
(*     NaN and is NaN without a value, adds the bools of an object column  *)
(*     as 1 and 0, and raises TypeError on strings;                        *)
(*   - to_datetime(errors="coerce") reads a numeric column as nanoseconds  *)
(*     since 1970-01-01 (fractions cut off), turns unparseable cells into  *)
(*     NaT, and raises ValueError on a frame with duplicate column labels; *)
(*   - sort_values puts NaT last (in their original order) and, being a    *)
(*     quicksort, leaves the order of rows with equal dates open.          *)
(*                                                                         *)
(* A name is a sequence of Unicode code points. A cell of the file is      *)
(* <<"na", 0>> (empty), <<"num", v>> (the number v / Unit, a double, in    *)
(* plain decimal notation), <<"date", d>> (a date text "YYYY-MM-DD", d its *)
(* day number, 2025-01-01 being day 1), <<"bool", b>> (the text True or    *)
(* False, b is 1 or 0) or <<"str", k>> (any other text, no date and no     *)
(* number, k telling texts apart). Files are drawn with pairwise distinct  *)
(* raw header names and at least two columns.                              *)
(***************************************************************************)
EXTENDS Integers, Sequences, FiniteSets, Bags, TLC

VARIABLES
    names,      \* the CSV file: its raw header names
    rows,       \* the CSV file: its data rows, each a sequence of cells
    ret,        \* last call of analyze_air_quality_csv: how it ended, and desc
    df,         \* last call: the rows of df when the call ended
    date_col,   \* last call: date_col (None is <<>>)
    pollutants, \* last call: pollutants
    outcomes,   \* last call: per pollutant, how its trend iteration ended
    pc,         \* position of the script run
    kind,       \* what the script run is: "none", "single" or "full"
    log,        \* the agent calls of the run, as events
    texts,      \* the variables news, policy, innovations, data_summary of a full run
    synth_args, \* the arguments synthesize was called with
    tool_calls, \* calls of the tool made by the Data Analyst agent in this run
    tool_out,   \* what the tool returned to the agent in this run
    uploaded,   \* the run's uploaded file, if one is present
    runs        \* script runs started so far

vars == <<names, rows, ret, df, date_col, pollutants, outcomes,
          pc, kind, log, texts, synth_args, tool_calls, tool_out, uploaded, runs>>

fileVars == <<names, rows>>
callVars == <<ret, df, date_col, pollutants, outcomes>>
runVars == <<pc, kind, log, texts, synth_args, tool_calls, tool_out, uploaded, runs>>

(***************************************************************************)
(* Bounds of the model                                                     *)
(***************************************************************************)
MaxRows == 12
FreeRows == 3
ShortRows == 6
MaxRuns == 2

(***************************************************************************)
(* Program constants                                                       *)
(***************************************************************************)
TrendMinRows == 8
PreviewRows == 5

\* a number cell holds a multiple of 1 / Unit; read_csv reads it exactly
UnitBits == 20
Unit == 2^UnitBits

None == <<>>
NaT == <<"NaT", 0>>

(***************************************************************************)
(* Names. A character is its Unicode code point; Text writes a name in     *)
(* ASCII. str.strip and str.lower are those of Python 3.11 (Unicode 14).   *)
(***************************************************************************)
Uppers == <<"A","B","C","D","E","F","G","H","I","J","K","L","M",
            "N","O","P","Q","R","S","T","U","V","W","X","Y","Z">>
Lowers == <<"a","b","c","d","e","f","g","h","i","j","k","l","m",
            "n","o","p","q","r","s","t","u","v","w","x","y","z">>
Digits == <<"0","1","2","3","4","5","6","7","8","9">>

Place(c, s) == CHOOSE i \in 1..Len(s) : s[i] = c

\* ord of a letter, a digit, a blank, a tab, a newline or an underscore
Ord(c) ==
    CASE c = " " -> 32
      [] c = "\t" -> 9
      [] c = "\n" -> 10
      [] c = "_" -> 95
      [] \E i \in 1..Len(Digits) : Digits[i] = c -> 47 + Place(c, Digits)
      [] \E i \in 1..Len(Uppers) : Uppers[i] = c -> 64 + Place(c, Uppers)
      [] \E i \in 1..Len(Lowers) : Lowers[i] = c -> 96 + Place(c, Lowers)

Text(s) == [i \in 1..Len(s) |-> Ord(s[i])]

InRanges(c, ranges) == \E i \in 1..Len(ranges) : ranges[i][1] <= c /\ c <= ranges[i][2]

\* the characters str.strip() removes: those with str.isspace()
Whitespace ==
    (9..13) \cup (28..32) \cup {133, 160, 5760} \cup (8192..8202)
    \cup {8232, 8233, 8239, 8287, 12288}

\* str.lower() of one character where it is one character: <<first, last,
\* step, offset>> maps first, first + step, ..., last to itself plus offset
LowerRanges ==
    << <<65,90,1,32>>, <<192,214,1,32>>, <<216,222,1,32>>, <<256,302,2,1>>,
       <<306,310,2,1>>, <<313,327,2,1>>, <<330,374,2,1>>, <<376,376,1,-121>>,
       <<377,381,2,1>>, <<385,385,1,210>>, <<386,388,2,1>>, <<390,390,1,206>>,
       <<391,391,1,1>>, <<393,394,1,205>>, <<395,395,1,1>>, <<398,398,1,79>>,
       <<399,399,1,202>>, <<400,400,1,203>>, <<401,401,1,1>>, <<403,403,1,205>>,
       <<404,404,1,207>>, <<406,406,1,211>>, <<407,407,1,209>>, <<408,408,1,1>>,
       <<412,412,1,211>>, <<413,413,1,213>>, <<415,415,1,214>>, <<416,420,2,1>>,
       <<422,422,1,218>>, <<423,423,1,1>>, <<425,425,1,218>>, <<428,428,1,1>>,
       <<430,430,1,218>>, <<431,431,1,1>>, <<433,434,1,217>>, <<435,437,2,1>>,
       <<439,439,1,219>>, <<440,440,1,1>>, <<444,444,1,1>>, <<452,452,1,2>>,
       <<453,453,1,1>>, <<455,455,1,2>>, <<456,456,1,1>>, <<458,458,1,2>>,
       <<459,475,2,1>>, <<478,494,2,1>>, <<497,497,1,2>>, <<498,500,2,1>>,
       <<502,502,1,-97>>, <<503,503,1,-56>>, <<504,542,2,1>>, <<544,544,1,-130>>,
       <<546,562,2,1>>, <<570,570,1,10795>>, <<571,571,1,1>>, <<573,573,1,-163>>,
       <<574,574,1,10792>>, <<577,577,1,1>>, <<579,579,1,-195>>, <<580,580,1,69>>,
       <<581,581,1,71>>, <<582,590,2,1>>, <<880,882,2,1>>, <<886,886,1,1>>,
       <<895,895,1,116>>, <<902,902,1,38>>, <<904,906,1,37>>, <<908,908,1,64>>,
       <<910,911,1,63>>, <<913,929,1,32>>, <<931,939,1,32>>, <<975,975,1,8>>,
       <<984,1006,2,1>>, <<1012,1012,1,-60>>, <<1015,1015,1,1>>,
       <<1017,1017,1,-7>>, <<1018,1018,1,1>>, <<1021,1023,1,-130>>,
       <<1024,1039,1,80>>, <<1040,1071,1,32>>, <<1120,1152,2,1>>,
       <<1162,1214,2,1>>, <<1216,1216,1,15>>, <<1217,1229,2,1>>, <<1232,1326,2,1>>,
       <<1329,1366,1,48>>, <<4256,4293,1,7264>>, <<4295,4295,1,7264>>,
       <<4301,4301,1,7264>>, <<5024,5103,1,38864>>, <<5104,5109,1,8>>,
       <<7312,7354,1,-3008>>, <<7357,7359,1,-3008>>, <<7680,7828,2,1>>,
       <<7838,7838,1,-7615>>, <<7840,7934,2,1>>, <<7944,7951,1,-8>>,
       <<7960,7965,1,-8>>, <<7976,7983,1,-8>>, <<7992,7999,1,-8>>,
       <<8008,8013,1,-8>>, <<8025,8031,2,-8>>, <<8040,8047,1,-8>>,
       <<8072,8079,1,-8>>, <<8088,8095,1,-8>>, <<8104,8111,1,-8>>,
       <<8120,8121,1,-8>>, <<8122,8123,1,-74>>, <<8124,8124,1,-9>>,
       <<8136,8139,1,-86>>, <<8140,8140,1,-9>>, <<8152,8153,1,-8>>,
       <<8154,8155,1,-100>>, <<8168,8169,1,-8>>, <<8170,8171,1,-112>>,
       <<8172,8172,1,-7>>, <<8184,8185,1,-128>>, <<8186,8187,1,-126>>,
       <<8188,8188,1,-9>>, <<8486,8486,1,-7517>>, <<8490,8490,1,-8383>>,
       <<8491,8491,1,-8262>>, <<8498,8498,1,28>>, <<8544,8559,1,16>>,
       <<8579,8579,1,1>>, <<9398,9423,1,26>>, <<11264,11311,1,48>>,
       <<11360,11360,1,1>>, <<11362,11362,1,-10743>>, <<11363,11363,1,-3814>>,
       <<11364,11364,1,-10727>>, <<11367,11371,2,1>>, <<11373,11373,1,-10780>>,
       <<11374,11374,1,-10749>>, <<11375,11375,1,-10783>>,
       <<11376,11376,1,-10782>>, <<11378,11378,1,1>>, <<11381,11381,1,1>>,
       <<11390,11391,1,-10815>>, <<11392,11490,2,1>>, <<11499,11501,2,1>>,
       <<11506,11506,1,1>>, <<42560,42604,2,1>>, <<42624,42650,2,1>>,
       <<42786,42798,2,1>>, <<42802,42862,2,1>>, <<42873,42875,2,1>>,
       <<42877,42877,1,-35332>>, <<42878,42886,2,1>>, <<42891,42891,1,1>>,
       <<42893,42893,1,-42280>>, <<42896,42898,2,1>>, <<42902,42920,2,1>>,
       <<42922,42922,1,-42308>>, <<42923,42923,1,-42319>>,
       <<42924,42924,1,-42315>>, <<42925,42925,1,-42305>>,
       <<42926,42926,1,-42308>>, <<42928,42928,1,-42258>>,
       <<42929,42929,1,-42282>>, <<42930,42930,1,-42261>>, <<42931,42931,1,928>>,
       <<42932,42946,2,1>>, <<42948,42948,1,-48>>, <<42949,42949,1,-42307>>,
       <<42950,42950,1,-35384>>, <<42951,42953,2,1>>, <<42960,42960,1,1>>,
       <<42966,42968,2,1>>, <<42997,42997,1,1>>, <<65313,65338,1,32>>,
       <<66560,66599,1,40>>, <<66736,66771,1,40>>, <<66928,66938,1,39>>,
       <<66940,66954,1,39>>, <<66956,66962,1,39>>, <<66964,66965,1,39>>,
       <<68736,68786,1,64>>, <<71840,71871,1,32>>, <<93760,93791,1,32>>,
       <<125184,125217,1,34>> >>

\* the characters that are cased and not case-ignorable, as <<first, last>>
CasedRanges ==
    << <<65,90>>, <<97,122>>, <<170,170>>, <<181,181>>, <<186,186>>, <<192,214>>,
       <<216,246>>, <<248,442>>, <<444,447>>, <<452,659>>, <<661,687>>,
       <<880,883>>, <<886,887>>, <<891,893>>, <<895,895>>, <<902,902>>,
       <<904,906>>, <<908,908>>, <<910,929>>, <<931,1013>>, <<1015,1153>>,
       <<1162,1327>>, <<1329,1366>>, <<1376,1416>>, <<4256,4293>>, <<4295,4295>>,
       <<4301,4301>>, <<4304,4346>>, <<4349,4351>>, <<5024,5109>>, <<5112,5117>>,
       <<7296,7304>>, <<7312,7354>>, <<7357,7359>>, <<7424,7467>>, <<7531,7543>>,
       <<7545,7578>>, <<7680,7957>>, <<7960,7965>>, <<7968,8005>>, <<8008,8013>>,
       <<8016,8023>>, <<8025,8025>>, <<8027,8027>>, <<8029,8029>>, <<8031,8061>>,
       <<8064,8116>>, <<8118,8124>>, <<8126,8126>>, <<8130,8132>>, <<8134,8140>>,
       <<8144,8147>>, <<8150,8155>>, <<8160,8172>>, <<8178,8180>>, <<8182,8188>>,
       <<8450,8450>>, <<8455,8455>>, <<8458,8467>>, <<8469,8469>>, <<8473,8477>>,
       <<8484,8484>>, <<8486,8486>>, <<8488,8488>>, <<8490,8493>>, <<8495,8500>>,
       <<8505,8505>>, <<8508,8511>>, <<8517,8521>>, <<8526,8526>>, <<8544,8575>>,
       <<8579,8580>>, <<9398,9449>>, <<11264,11387>>, <<11390,11492>>,
       <<11499,11502>>, <<11506,11507>>, <<11520,11557>>, <<11559,11559>>,
       <<11565,11565>>, <<42560,42605>>, <<42624,42651>>, <<42786,42863>>,
       <<42865,42887>>, <<42891,42894>>, <<42896,42954>>, <<42960,42961>>,
       <<42963,42963>>, <<42965,42969>>, <<42997,42998>>, <<43002,43002>>,
       <<43824,43866>>, <<43872,43880>>, <<43888,43967>>, <<64256,64262>>,
       <<64275,64279>>, <<65313,65338>>, <<65345,65370>>, <<66560,66639>>,
       <<66736,66771>>, <<66776,66811>>, <<66928,66938>>, <<66940,66954>>,
       <<66956,66962>>, <<66964,66965>>, <<66967,66977>>, <<66979,66993>>,
       <<66995,67001>>, <<67003,67004>>, <<68736,68786>>, <<68800,68850>>,
       <<71840,71903>>, <<93760,93823>>, <<119808,119892>>, <<119894,119964>>,
       <<119966,119967>>, <<119970,119970>>, <<119973,119974>>, <<119977,119980>>,
       <<119982,119993>>, <<119995,119995>>, <<119997,120003>>, <<120005,120069>>,
       <<120071,120074>>, <<120077,120084>>, <<120086,120092>>, <<120094,120121>>,
       <<120123,120126>>, <<120128,120132>>, <<120134,120134>>, <<120138,120144>>,
       <<120146,120485>>, <<120488,120512>>, <<120514,120538>>, <<120540,120570>>,
       <<120572,120596>>, <<120598,120628>>, <<120630,120654>>, <<120656,120686>>,
       <<120688,120712>>, <<120714,120744>>, <<120746,120770>>, <<120772,120779>>,
       <<122624,122633>>, <<122635,122654>>, <<125184,125251>>, <<127280,127305>>,
       <<127312,127337>>, <<127344,127369>> >>

\* the case-ignorable characters, as <<first, last>>
CaseIgnorableRanges ==
    << <<39,39>>, <<46,46>>, <<58,58>>, <<94,94>>, <<96,96>>, <<168,168>>,
       <<173,173>>, <<175,175>>, <<180,180>>, <<183,184>>, <<688,879>>,
       <<884,885>>, <<890,890>>, <<900,901>>, <<903,903>>, <<1155,1161>>,
       <<1369,1369>>, <<1375,1375>>, <<1425,1469>>, <<1471,1471>>, <<1473,1474>>,
       <<1476,1477>>, <<1479,1479>>, <<1524,1524>>, <<1536,1541>>, <<1552,1562>>,
       <<1564,1564>>, <<1600,1600>>, <<1611,1631>>, <<1648,1648>>, <<1750,1757>>,
       <<1759,1768>>, <<1770,1773>>, <<1807,1807>>, <<1809,1809>>, <<1840,1866>>,
       <<1958,1968>>, <<2027,2037>>, <<2042,2042>>, <<2045,2045>>, <<2070,2093>>,
       <<2137,2139>>, <<2184,2184>>, <<2192,2193>>, <<2200,2207>>, <<2249,2306>>,
       <<2362,2362>>, <<2364,2364>>, <<2369,2376>>, <<2381,2381>>, <<2385,2391>>,
       <<2402,2403>>, <<2417,2417>>, <<2433,2433>>, <<2492,2492>>, <<2497,2500>>,
       <<2509,2509>>, <<2530,2531>>, <<2558,2558>>, <<2561,2562>>, <<2620,2620>>,
       <<2625,2626>>, <<2631,2632>>, <<2635,2637>>, <<2641,2641>>, <<2672,2673>>,
       <<2677,2677>>, <<2689,2690>>, <<2748,2748>>, <<2753,2757>>, <<2759,2760>>,
       <<2765,2765>>, <<2786,2787>>, <<2810,2815>>, <<2817,2817>>, <<2876,2876>>,
       <<2879,2879>>, <<2881,2884>>, <<2893,2893>>, <<2901,2902>>, <<2914,2915>>,
       <<2946,2946>>, <<3008,3008>>, <<3021,3021>>, <<3072,3072>>, <<3076,3076>>,
       <<3132,3132>>, <<3134,3136>>, <<3142,3144>>, <<3146,3149>>, <<3157,3158>>,
       <<3170,3171>>, <<3201,3201>>, <<3260,3260>>, <<3263,3263>>, <<3270,3270>>,
       <<3276,3277>>, <<3298,3299>>, <<3328,3329>>, <<3387,3388>>, <<3393,3396>>,
       <<3405,3405>>, <<3426,3427>>, <<3457,3457>>, <<3530,3530>>, <<3538,3540>>,
       <<3542,3542>>, <<3633,3633>>, <<3636,3642>>, <<3654,3662>>, <<3761,3761>>,
       <<3764,3772>>, <<3782,3782>>, <<3784,3789>>, <<3864,3865>>, <<3893,3893>>,
       <<3895,3895>>, <<3897,3897>>, <<3953,3966>>, <<3968,3972>>, <<3974,3975>>,
       <<3981,3991>>, <<3993,4028>>, <<4038,4038>>, <<4141,4144>>, <<4146,4151>>,
       <<4153,4154>>, <<4157,4158>>, <<4184,4185>>, <<4190,4192>>, <<4209,4212>>,
       <<4226,4226>>, <<4229,4230>>, <<4237,4237>>, <<4253,4253>>, <<4348,4348>>,
       <<4957,4959>>, <<5906,5908>>, <<5938,5939>>, <<5970,5971>>, <<6002,6003>>,
       <<6068,6069>>, <<6071,6077>>, <<6086,6086>>, <<6089,6099>>, <<6103,6103>>,
       <<6109,6109>>, <<6155,6159>>, <<6211,6211>>, <<6277,6278>>, <<6313,6313>>,
       <<6432,6434>>, <<6439,6440>>, <<6450,6450>>, <<6457,6459>>, <<6679,6680>>,
       <<6683,6683>>, <<6742,6742>>, <<6744,6750>>, <<6752,6752>>, <<6754,6754>>,
       <<6757,6764>>, <<6771,6780>>, <<6783,6783>>, <<6823,6823>>, <<6832,6862>>,
       <<6912,6915>>, <<6964,6964>>, <<6966,6970>>, <<6972,6972>>, <<6978,6978>>,
       <<7019,7027>>, <<7040,7041>>, <<7074,7077>>, <<7080,7081>>, <<7083,7085>>,
       <<7142,7142>>, <<7144,7145>>, <<7149,7149>>, <<7151,7153>>, <<7212,7219>>,
       <<7222,7223>>, <<7288,7293>>, <<7376,7378>>, <<7380,7392>>, <<7394,7400>>,
       <<7405,7405>>, <<7412,7412>>, <<7416,7417>>, <<7468,7530>>, <<7544,7544>>,
       <<7579,7679>>, <<8125,8125>>, <<8127,8129>>, <<8141,8143>>, <<8157,8159>>,
       <<8173,8175>>, <<8189,8190>>, <<8203,8207>>, <<8216,8217>>, <<8228,8228>>,
       <<8231,8231>>, <<8234,8238>>, <<8288,8292>>, <<8294,8303>>, <<8305,8305>>,
       <<8319,8319>>, <<8336,8348>>, <<8400,8432>>, <<11388,11389>>,
       <<11503,11505>>, <<11631,11631>>, <<11647,11647>>, <<11744,11775>>,
       <<11823,11823>>, <<12293,12293>>, <<12330,12333>>, <<12337,12341>>,
       <<12347,12347>>, <<12441,12446>>, <<12540,12542>>, <<40981,40981>>,
       <<42232,42237>>, <<42508,42508>>, <<42607,42610>>, <<42612,42621>>,
       <<42623,42623>>, <<42652,42655>>, <<42736,42737>>, <<42752,42785>>,
       <<42864,42864>>, <<42888,42890>>, <<42994,42996>>, <<43000,43001>>,
       <<43010,43010>>, <<43014,43014>>, <<43019,43019>>, <<43045,43046>>,
       <<43052,43052>>, <<43204,43205>>, <<43232,43249>>, <<43263,43263>>,
       <<43302,43309>>, <<43335,43345>>, <<43392,43394>>, <<43443,43443>>,
       <<43446,43449>>, <<43452,43453>>, <<43471,43471>>, <<43493,43494>>,
       <<43561,43566>>, <<43569,43570>>, <<43573,43574>>, <<43587,43587>>,
       <<43596,43596>>, <<43632,43632>>, <<43644,43644>>, <<43696,43696>>,
       <<43698,43700>>, <<43703,43704>>, <<43710,43711>>, <<43713,43713>>,
       <<43741,43741>>, <<43756,43757>>, <<43763,43764>>, <<43766,43766>>,
       <<43867,43871>>, <<43881,43883>>, <<44005,44005>>, <<44008,44008>>,
       <<44013,44013>>, <<64286,64286>>, <<64434,64450>>, <<65024,65039>>,
       <<65043,65043>>, <<65056,65071>>, <<65106,65106>>, <<65109,65109>>,
       <<65279,65279>>, <<65287,65287>>, <<65294,65294>>, <<65306,65306>>,
       <<65342,65342>>, <<65344,65344>>, <<65392,65392>>, <<65438,65439>>,
       <<65507,65507>>, <<65529,65531>>, <<66045,66045>>, <<66272,66272>>,
       <<66422,66426>>, <<67456,67461>>, <<67463,67504>>, <<67506,67514>>,
       <<68097,68099>>, <<68101,68102>>, <<68108,68111>>, <<68152,68154>>,
       <<68159,68159>>, <<68325,68326>>, <<68900,68903>>, <<69291,69292>>,
       <<69446,69456>>, <<69506,69509>>, <<69633,69633>>, <<69688,69702>>,
       <<69744,69744>>, <<69747,69748>>, <<69759,69761>>, <<69811,69814>>,
       <<69817,69818>>, <<69821,69821>>, <<69826,69826>>, <<69837,69837>>,
       <<69888,69890>>, <<69927,69931>>, <<69933,69940>>, <<70003,70003>>,
       <<70016,70017>>, <<70070,70078>>, <<70089,70092>>, <<70095,70095>>,
       <<70191,70193>>, <<70196,70196>>, <<70198,70199>>, <<70206,70206>>,
       <<70367,70367>>, <<70371,70378>>, <<70400,70401>>, <<70459,70460>>,
       <<70464,70464>>, <<70502,70508>>, <<70512,70516>>, <<70712,70719>>,
       <<70722,70724>>, <<70726,70726>>, <<70750,70750>>, <<70835,70840>>,
       <<70842,70842>>, <<70847,70848>>, <<70850,70851>>, <<71090,71093>>,
       <<71100,71101>>, <<71103,71104>>, <<71132,71133>>, <<71219,71226>>,
       <<71229,71229>>, <<71231,71232>>, <<71339,71339>>, <<71341,71341>>,
       <<71344,71349>>, <<71351,71351>>, <<71453,71455>>, <<71458,71461>>,
       <<71463,71467>>, <<71727,71735>>, <<71737,71738>>, <<71995,71996>>,
       <<71998,71998>>, <<72003,72003>>, <<72148,72151>>, <<72154,72155>>,
       <<72160,72160>>, <<72193,72202>>, <<72243,72248>>, <<72251,72254>>,
       <<72263,72263>>, <<72273,72278>>, <<72281,72283>>, <<72330,72342>>,
       <<72344,72345>>, <<72752,72758>>, <<72760,72765>>, <<72767,72767>>,
       <<72850,72871>>, <<72874,72880>>, <<72882,72883>>, <<72885,72886>>,
       <<73009,73014>>, <<73018,73018>>, <<73020,73021>>, <<73023,73029>>,
       <<73031,73031>>, <<73104,73105>>, <<73109,73109>>, <<73111,73111>>,
       <<73459,73460>>, <<78896,78904>>, <<92912,92916>>, <<92976,92982>>,
       <<92992,92995>>, <<94031,94031>>, <<94095,94111>>, <<94176,94177>>,
       <<94179,94180>>, <<110576,110579>>, <<110581,110587>>, <<110589,110590>>,
       <<113821,113822>>, <<113824,113827>>, <<118528,118573>>, <<118576,118598>>,
       <<119143,119145>>, <<119155,119170>>, <<119173,119179>>, <<119210,119213>>,
       <<119362,119364>>, <<121344,121398>>, <<121403,121452>>, <<121461,121461>>,
       <<121476,121476>>, <<121499,121503>>, <<121505,121519>>, <<122880,122886>>,
       <<122888,122904>>, <<122907,122913>>, <<122915,122916>>, <<122918,122922>>,
       <<123184,123197>>, <<123566,123566>>, <<123628,123631>>, <<125136,125142>>,
       <<125252,125259>>, <<127995,127999>>, <<917505,917505>>, <<917536,917631>>,
       <<917760,917999>> >>

Cased(c) == InRanges(c, CasedRanges)
CaseIgnorable(c) == InRanges(c, CaseIgnorableRanges)

\* str.lower() of a capital sigma: it is final when a cased character stands
\* before it and none after it, case-ignorable characters skipped
FinalSigma(s, i) ==
    LET before == {j \in 1..(i - 1) : ~CaseIgnorable(s[j])}
        after == {j \in (i + 1)..Len(s) : ~CaseIgnorable(s[j])}
    IN  /\ before # {}
        /\ Cased(s[CHOOSE j \in before : \A k \in before : k <= j])
        /\ after = {} \/ ~Cased(s[CHOOSE j \in after : \A k \in after : j <= k])

\* str.lower() of the character at place i of s: one character, or two for
\* the capital I with a dot above (304)
LowerChar(s, i) ==
    LET c == s[i]
        hits == {k \in 1..Len(LowerRanges) :
                    /\ LowerRanges[k][1] <= c /\ c <= LowerRanges[k][2]
                    /\ (c - LowerRanges[k][1]) % LowerRanges[k][3] = 0}
    IN  IF c < 128 THEN <<IF 65 <= c /\ c <= 90 THEN c + 32 ELSE c>>
        ELSE IF c = 304 THEN <<105, 775>>
        ELSE IF c = 931 THEN <<IF FinalSigma(s, i) THEN 962 ELSE 963>>
        ELSE IF hits = {} THEN <<c>>
        ELSE <<c + LowerRanges[CHOOSE k \in hits : TRUE][4]>>

RECURSIVE LowerFrom(_, _)
LowerFrom(s, i) == IF i > Len(s) THEN <<>> ELSE LowerChar(s, i) \o LowerFrom(s, i + 1)

lower(s) == LowerFrom(s, 1)

strip(s) ==
    LET keep == {i \in 1..Len(s) : s[i] \notin Whitespace}
    IN  IF keep = {} THEN <<>>
        ELSE LET lo == CHOOSE i \in keep : \A k \in keep : i <= k
                 hi == CHOOSE i \in keep : \A k \in keep : k <= i
             IN  SubSeq(s, lo, hi)

\* line 26: df.columns = [c.strip().lower() for c in df.columns]
NormalizeColumns(raw) == [j \in 1..Len(raw) |-> lower(strip(raw[j]))]

DateCandidates ==
    << Text(<<"d","a","t","e">>),
       Text(<<"t","i","m","e","s","t","a","m","p">>),
       Text(<<"d","a","y">>),
       Text(<<"d","a","t","e","t","i","m","e">>) >>

Vocabulary ==
    << Text(<<"p","m","2","5">>),
       Text(<<"p","m","2","_","5">>),
       Text(<<"p","m","1","0">>),
       Text(<<"n","o","2">>),
       Text(<<"s","o","2">>),
       Text(<<"c","o">>),
       Text(<<"o","3">>),
       Text(<<"a","q","i">>) >>

InColumns(name, cols) == \E j \in 1..Len(cols) : cols[j] = name

\* a slip: the first column of the file that is a candidate
FindDateColInFileOrder(cols) ==
    LET hits == {j \in 1..Len(cols) : \E i \in 1..Len(DateCandidates) : DateCandidates[i] = cols[j]}
    IN  IF hits = {} THEN None
        ELSE cols[CHOOSE j \in hits : \A k \in hits : j <= k]

\* lines 28-32: the first candidate that is a column, or None
FindDateCol(cols) ==
    LET hits == {i \in 1..Len(DateCandidates) : InColumns(DateCandidates[i], cols)}
    IN  IF hits = {} THEN None
        ELSE DateCandidates[CHOOSE i \in hits : \A k \in hits : i <= k]

\* line 37: [c for c in [...] if c in df.columns]
FindPollutants(cols) ==
    SelectSeq(Vocabulary, LAMBDA c : InColumns(c, cols))

(***************************************************************************)
(* The data frame                                                          *)
(***************************************************************************)
ColumnsNamed(cols, name) == {j \in 1..Len(cols) : cols[j] = name}

\* read_csv (line 25): the dtype of column j
Dtype(rs, j) ==
    IF rs = <<>> THEN "object"
    ELSE IF \A i \in 1..Len(rs) : rs[i][j][1] \in {"num", "na"} THEN "float64"
    ELSE IF \A i \in 1..Len(rs) : rs[i][j][1] = "bool" THEN "bool"
    ELSE "object"

\* the dtype of column j is one numeric_only keeps
NumericCol(rs, j) == Dtype(rs, j) # "object"

\* column j is an object column of bools and NaN: True, False and empty cells,
\* at least one of them empty
BoolObjects(rs, j) ==
    /\ Dtype(rs, j) = "object"
    /\ rs # <<>>
    /\ \A i \in 1..Len(rs) : rs[i][j][1] \in {"bool", "na"}

\* Series.notna of one value
notna(c) == c[1] \notin {"na", "NaT"}

\* a float cut off towards zero, as the cast to datetime64[ns] does
Truncate(v) == IF v < 0 THEN 0 - ((0 - v) \div Unit) ELSE v \div Unit

\* pd.to_datetime(..., errors="coerce") of one cell (line 34) of a column that
\* is numeric or not: <<"ts", day>> for a date text, <<"ns", nanoseconds since
\* 1970-01-01>> for a number of a numeric column, NaT for an empty cell, for
\* True and False, for other text and for the text of a number below 1000
to_datetime(c, numeric) ==
    CASE c[1] = "date" -> <<"ts", c[2]>>
      [] c[1] = "num" /\ numeric -> <<"ns", Truncate(c[2])>>
      [] c[1] = "num" /\ ~numeric /\ (c[2] < 0 \/ (Unit <= c[2] /\ c[2] < 1000 * Unit)) -> NaT
      [] c[1] \in {"na", "str", "bool"} -> NaT

ParseDates(rs, j) ==
    [i \in 1..Len(rs) |-> [k \in 1..Len(rs[i]) |->
        IF k = j THEN to_datetime(rs[i][k], Dtype(rs, j) = "float64") ELSE rs[i][k]]]

InsertAt(s, p, r) == SubSeq(s, 1, p - 1) \o <<r>> \o SubSeq(s, p, Len(s))

\* the places where row r may stand in the ascending sequence s
SortedPlaces(s, r, j) ==
    {p \in 1..(Len(s) + 1) :
        /\ \A k \in 1..(p - 1) : s[k][j][2] <= r[j][2]
        /\ \A k \in p..Len(s) : r[j][2] <= s[k][j][2]}

RECURSIVE Ascending(_, _)
Ascending(valid, j) ==
    IF valid = <<>> THEN {<<>>}
    ELSE UNION {{InsertAt(s, p, Head(valid)) : p \in SortedPlaces(s, Head(valid), j)} :
                s \in Ascending(Tail(valid), j)}

\* a slip: the rows without a date are dropped
sort_values_dropna(rs, j) == Ascending(SelectSeq(rs, LAMBDA r : notna(r[j])), j)

\* df.sort_values(by=date_col) (line 35): ascending, NaT last, ties in any order
sort_values(rs, j) ==
    LET valid == SelectSeq(rs, LAMBDA r : notna(r[j]))
        nat == SelectSeq(rs, LAMBDA r : ~notna(r[j]))
    IN  {s \o nat : s \in Ascending(valid, j)}

\* df.head(q), df.tail(q)
head(rs, q) == SubSeq(rs, 1, IF q < Len(rs) THEN q ELSE Len(rs))
tail(rs, q) == SubSeq(rs, IF q < Len(rs) THEN Len(rs) - q + 1 ELSE 1, Len(rs))

(***************************************************************************)
(* Floats. The cells, their sums and the counts are exact in a double; the *)
(* quotient of a mean and the difference of two means are rounded as IEEE  *)
(* 754 rounds them (to the nearest double, ties to the even mantissa). A   *)
(* natural number of any size is the sequence of its digits in base Base,  *)
(* the lowest first, <<>> for zero. A float is [nan, neg, man, exp]: NaN,  *)
(* or the value (-1)^neg * man * 2^exp with man below 2^MantissaBits.      *)
(***************************************************************************)
DigitBits == 15
Base == 2^DigitBits
MantissaBits == 53

RECURSIVE BigTrim(_)
BigTrim(x) ==
    IF x = <<>> THEN <<>>
    ELSE IF x[Len(x)] = 0 THEN BigTrim(SubSeq(x, 1, Len(x) - 1))
    ELSE x

RECURSIVE BigOfNat(_)
BigOfNat(n) == IF n = 0 THEN <<>> ELSE <<n % Base>> \o BigOfNat(n \div Base)

RECURSIVE BigToNat(_)
BigToNat(x) == IF x = <<>> THEN 0 ELSE x[1] + Base * BigToNat(Tail(x))

RECURSIVE BigMulCarry(_, _, _)
BigMulCarry(x, m, c) ==
    IF x = <<>> THEN BigOfNat(c)
    ELSE <<(x[1] * m + c) % Base>> \o BigMulCarry(Tail(x), m, (x[1] * m + c) \div Base)

\* x * m for a factor m below Base
BigMul(x, m) == IF m = 0 THEN <<>> ELSE BigMulCarry(x, m, 0)

\* x divided by a divisor d below Base: the quotient q and the remainder r
RECURSIVE BigDivMod(_, _)
BigDivMod(x, d) ==
    IF x = <<>> THEN [q |-> <<>>, r |-> 0]
    ELSE LET hi == BigDivMod(Tail(x), d)
             v == hi.r * Base + x[1]
         IN  [q |-> BigTrim(<<v \div d>> \o hi.q), r |-> v % d]

RECURSIVE BigAddCarry(_, _, _)
BigAddCarry(x, y, c) ==
    IF x = <<>> /\ y = <<>> THEN BigOfNat(c)
    ELSE LET v == (IF x = <<>> THEN 0 ELSE x[1]) + (IF y = <<>> THEN 0 ELSE y[1]) + c
         IN  <<v % Base>> \o BigAddCarry(IF x = <<>> THEN <<>> ELSE Tail(x),
                                         IF y = <<>> THEN <<>> ELSE Tail(y), v \div Base)

BigAdd(x, y) == BigAddCarry(x, y, 0)

RECURSIVE BigSubBorrow(_, _, _)
BigSubBorrow(x, y, b) ==
    IF x = <<>> THEN <<>>
    ELSE LET v == x[1] - (IF y = <<>> THEN 0 ELSE y[1]) - b
         IN  <<IF v < 0 THEN v + Base ELSE v>>
             \o BigSubBorrow(Tail(x), IF y = <<>> THEN <<>> ELSE Tail(y), IF v < 0 THEN 1 ELSE 0)

\* x - y for x >= y
BigSub(x, y) == BigTrim(BigSubBorrow(x, y, 0))

\* -1, 0 or 1 as x is below, equal to or above y
BigCmp(x, y) ==
    IF Len(x) # Len(y) THEN (IF Len(x) < Len(y) THEN -1 ELSE 1)
    ELSE LET diff == {i \in 1..Len(x) : x[i] # y[i]}
         IN  IF diff = {} THEN 0
             ELSE LET i == CHOOSE k \in diff : \A l \in diff : l <= k
                  IN  IF x[i] < y[i] THEN -1 ELSE 1

BitLength(x) ==
    IF x = <<>> THEN 0
    ELSE DigitBits * (Len(x) - 1)
         + (CHOOSE b \in 1..DigitBits : 2^(b - 1) <= x[Len(x)] /\ x[Len(x)] < 2^b)

\* x * 2^s and x \div 2^s
ShiftLeft(x, s) ==
    IF x = <<>> THEN <<>>
    ELSE [i \in 1..(s \div DigitBits) |-> 0] \o BigMul(x, 2^(s % DigitBits))

ShiftRight(x, s) ==
    BigDivMod(SubSeq(x, (s \div DigitBits) + 1, Len(x)), 2^(s % DigitBits)).q

NaN == [nan |-> TRUE, neg |-> FALSE, man |-> <<>>, exp |-> 0]
Zero == [nan |-> FALSE, neg |-> FALSE, man |-> <<>>, exp |-> 0]

\* the double nearest to (-1)^neg * x * 2^e, or to a value just above x * 2^e
\* in magnitude when sticky; ties go to the even mantissa
RoundToDouble(neg, x, e, sticky) ==
    IF x = <<>> THEN Zero
    ELSE IF BitLength(x) <= MantissaBits THEN [nan |-> FALSE, neg |-> neg, man |-> x, exp |-> e]
    ELSE LET s == BitLength(x) - MantissaBits
             q == ShiftRight(x, s)
             c == BigCmp(BigSub(x, ShiftLeft(q, s)), ShiftLeft(<<1>>, s - 1))
             up == c > 0 \/ (c = 0 /\ (sticky \/ q[1] % 2 = 1))
         IN  [nan |-> FALSE, neg |-> neg, man |-> IF up THEN BigAdd(q, <<1>>) ELSE q, exp |-> e + s]

\* a sum of cells, [neg, man] in units of 1/Unit, and a count: the double sum / count
GuardBits == 75

FloatDiv(sum, count) ==
    LET d == BigDivMod(ShiftLeft(sum.man, GuardBits), count)
    IN  RoundToDouble(sum.neg, d.q, 0 - GuardBits - UnitBits, d.r # 0)

\* the double a - b
FloatSub(a, b) ==
    IF b.man = <<>> THEN a
    ELSE IF a.man = <<>> THEN [b EXCEPT !.neg = ~b.neg]
    ELSE LET e == IF a.exp < b.exp THEN a.exp ELSE b.exp
             x == ShiftLeft(a.man, a.exp - e)
             y == ShiftLeft(b.man, b.exp - e)
             c == BigCmp(x, y)
         IN  IF a.neg # b.neg THEN RoundToDouble(a.neg, BigAdd(x, y), e, FALSE)
             ELSE IF c = 0 THEN Zero
             ELSE IF c > 0 THEN RoundToDouble(a.neg, BigSub(x, y), e, FALSE)
             ELSE RoundToDouble(~a.neg, BigSub(y, x), e, FALSE)

\* abs(a) < abs(b)
FloatAbsLess(a, b) ==
    IF b.man = <<>> THEN FALSE
    ELSE IF a.man = <<>> THEN TRUE
    ELSE LET e == IF a.exp < b.exp THEN a.exp ELSE b.exp
         IN  BigCmp(ShiftLeft(a.man, a.exp - e), ShiftLeft(b.man, b.exp - e)) < 0

\* the signed sum of two sums of cells
SignedAdd(a, b) ==
    IF a.neg = b.neg THEN [neg |-> a.neg, man |-> BigAdd(a.man, b.man)]
    ELSE IF BigCmp(a.man, b.man) = 0 THEN [neg |-> FALSE, man |-> <<>>]
    ELSE IF BigCmp(a.man, b.man) > 0 THEN [neg |-> a.neg, man |-> BigSub(a.man, b.man)]
    ELSE [neg |-> b.neg, man |-> BigSub(b.man, a.man)]

SignedOfInt(n) == [neg |-> n < 0, man |-> BigOfNat(IF n < 0 THEN 0 - n ELSE n)]

\* f"{v:.2f}": "nan", or the sign and the hundredths of the decimal nearest to
\* the double, ties to the even hundredth
Format2f(v) ==
    IF v.nan THEN [nan |-> TRUE, neg |-> FALSE, cents |-> 0]
    ELSE LET x == BigMul(v.man, 100)
             s == 0 - v.exp
             q == ShiftRight(x, s)
             c == BigCmp(BigSub(x, ShiftLeft(q, s)), ShiftLeft(<<1>>, s - 1))
             up == c > 0 \/ (c = 0 /\ q # <<>> /\ q[1] % 2 = 1)
         IN  [nan |-> FALSE, neg |-> v.neg,
              cents |-> IF v.exp >= 0 THEN BigToNat(ShiftLeft(x, v.exp))
                        ELSE BigToNat(IF up THEN BigAdd(q, <<1>>) ELSE q)]

\* 1e-6, the double 4722366482869645 * 2^-72
Eps ==
    [nan |-> FALSE, neg |-> FALSE, exp |-> 0 - 72,
     man |-> BigAdd(BigMul(BigMul(BigOfNat(47223664), 10000), 10000), BigOfNat(82869645))]

(***************************************************************************)
(* Means                                                                   *)
(***************************************************************************)
\* the number a cell holds, True being 1 and False 0, in units of 1 / Unit
Value(c) == SignedOfInt(IF c[1] = "bool" THEN c[2] * Unit ELSE c[2])

\* the sum of the values of column j; it is exact in a double
RECURSIVE SumCol(_, _)
SumCol(rs, j) ==
    IF rs = <<>> THEN SignedOfInt(0)
    ELSE IF notna(Head(rs)[j]) THEN SignedAdd(Value(Head(rs)[j]), SumCol(Tail(rs), j))
    ELSE SumCol(Tail(rs), j)

CountCol(rs, j) == Cardinality({i \in 1..Len(rs) : notna(rs[i][j])})

\* Series.mean() of a column of numbers or of bools: NaN skipped, NaN when
\* nothing is left
mean(rs, j) ==
    IF CountCol(rs, j) = 0 THEN NaN
    ELSE FloatDiv(SumCol(rs, j), CountCol(rs, j))

(***************************************************************************)
(* analyze_air_quality_csv, lines 24-71                                    *)
(***************************************************************************)
TheColumn(cols, name) == CHOOSE j \in ColumnsNamed(cols, name) : TRUE

\* line 39 and line 49: date_col and df[date_col].notna().any()
HasDates(frame, cols, dc) ==
    /\ dc # None
    /\ \E i \in 1..Len(frame) : notna(frame[i][TheColumn(cols, dc)])

\* 1970-01-01 as a day number
EpochDay == 1 - 20089

\* Timestamp.date()
DateOf(c) ==
    IF c[1] = "ts" THEN c[2]
    ELSE IF c[2] >= 0 THEN EpochDay ELSE EpochDay - 1

\* lines 40-42: the dates of the min and the max of the column
DateRange(frame, cols, dc) ==
    LET j == TheColumn(cols, dc)
        days == {DateOf(frame[i][j]) : i \in {k \in 1..Len(frame) : notna(frame[k][j])}}
    IN  <<"Date range", CHOOSE d \in days : \A e \in days : d <= e,
                        CHOOSE d \in days : \A e \in days : e <= d>>

\* line 45: df[pollutants].mean(numeric_only=True).to_dict(); the columns of a
\* label that are kept, the last one giving the value of the key
MeanColumns(frame, cols, pol) == {j \in ColumnsNamed(cols, pol) : NumericCol(frame, j)}

means(frame, cols, pols) ==
    LET kept == SelectSeq(pols, LAMBDA c : MeanColumns(frame, cols, c) # {})
        last(c) == CHOOSE j \in MeanColumns(frame, cols, c) :
                       \A k \in MeanColumns(frame, cols, c) : k <= j
    IN  [i \in 1..Len(kept) |-> <<kept[i], Format2f(mean(frame, last(kept[i])))>>]

\* line 50
Quartile(n) == n \div 4

\* line 58: delta = t - h
Delta(h, t) == FloatSub(t, h)

\* line 59: abs(delta) < 1e-6
Negligible(delta) == FloatAbsLess(delta, Eps)

\* line 61
Direction(delta) == IF delta.neg /\ delta.man # <<>> THEN "decreasing" ELSE "increasing"

NoAmount == [nan |-> TRUE, neg |-> FALSE, cents |-> 0]

\* lines 55-64, one iteration: how it ends, and the message it appends. The mean
\* of a frame (two columns of the name) fails the test of line 57, the mean of
\* strings raises, the mean of bools and NaN is a number
TrendStep(frame, cols, pol, hd, tl) ==
    LET js == ColumnsNamed(cols, pol)
        j == TheColumn(cols, pol)
        skip(why) == [end |-> why, msg |-> <<pol, "", NoAmount>>]
    IN  IF Cardinality(js) > 1 THEN skip("except")
        ELSE IF ~NumericCol(frame, j) /\ ~BoolObjects(frame, j)
        THEN IF CountCol(hd, j) + CountCol(tl, j) > 0 THEN skip("except") ELSE skip("nan")
        ELSE LET h == mean(hd, j)
                 t == mean(tl, j)
             IN  IF h.nan \/ t.nan THEN skip("nan")
                 ELSE IF Negligible(Delta(h, t)) THEN skip("continue")
                 ELSE [end |-> "append",
                       msg |-> <<pol, Direction(Delta(h, t)), Format2f(Delta(h, t))>>]

\* lines 54-64: the loop; an exception ends one iteration only
RECURSIVE TrendLoop(_, _, _, _, _)
TrendLoop(frame, cols, pols, hd, tl) ==
    IF pols = <<>> THEN <<>>
    ELSE <<TrendStep(frame, cols, Head(pols), hd, tl)>>
         \o TrendLoop(frame, cols, Tail(pols), hd, tl)

\* a slip: no least number of rows
TrendsWantedAnyLength(frame, cols, dc) == HasDates(frame, cols, dc)

\* line 49
TrendsWanted(frame, cols, dc) == HasDates(frame, cols, dc) /\ Len(frame) >= TrendMinRows

\* a slip: the whole frame is rendered
PreviewAll(frame, cols) == <<"head", cols, frame>>

\* line 69: df.head(5).to_string(index=False)
Preview(frame, cols) == <<"head", cols, head(frame, PreviewRows)>>

NoColumns == <<"No standard pollutant columns found. Showing dataframe head:">>

\* lines 37-71 on the frame left by lines 25-35
Describe(frame, cols, dc) ==
    LET pols == FindPollutants(cols)
        q == Quartile(Len(frame))
        steps == IF pols # <<>> /\ TrendsWanted(frame, cols, dc)
                 THEN TrendLoop(frame, cols, pols, head(frame, q), tail(frame, q))
                 ELSE <<>>
        appended == SelectSeq(steps, LAMBDA s : s.end = "append")
        trend_msgs == [i \in 1..Len(appended) |-> appended[i].msg]
        desc == << <<"Rows", Len(frame)>> >>
                \o (IF HasDates(frame, cols, dc) THEN <<DateRange(frame, cols, dc)>> ELSE <<>>)
                \o (IF pols # <<>>
                    THEN << <<"Means", means(frame, cols, pols)>> >>
                         \o (IF trend_msgs # <<>>
                             THEN << <<"Simple trends", trend_msgs>> >> ELSE <<>>)
                    ELSE <<NoColumns, Preview(frame, cols)>>)
    IN  [ret |-> [status |-> "returned", desc |-> desc],
         df |-> frame, date_col |-> dc, pollutants |-> pols,
         outcomes |-> [i \in 1..Len(steps) |-> steps[i].end]]

\* the calls analyze_air_quality_csv(file_path) can make of a file
analyze_air_quality_csv(raw, rs) ==
    LET cols == NormalizeColumns(raw)
        dc == FindDateCol(cols)
    IN  IF dc = None THEN {Describe(rs, cols, dc)}
        ELSE IF Cardinality(ColumnsNamed(cols, dc)) > 1
        THEN {[ret |-> [status |-> "raised", desc |-> <<>>],
               df |-> rs, date_col |-> dc, pollutants |-> <<>>, outcomes |-> <<>>]}
        ELSE {Describe(frame, cols, dc) :
                 frame \in sort_values(ParseDates(rs, TheColumn(cols, dc)), TheColumn(cols, dc))}

(***************************************************************************)
(* The files the summarizer is run on                                      *)
(***************************************************************************)
Na == <<"na", 0>>
Num(k) == <<"num", k * Unit>>
Frac(n, d) == <<"num", (n * Unit) \div d>>
Tiny(k) == <<"num", k * Unit + 1>>
Date(d) == <<"date", d>>
Str(k) == <<"str", k>>
Bool(b) == <<"bool", b>>

SampleNames ==
    << Text(<<"d","a","t","e">>), Text(<<"p","m","2","5">>),
       Text(<<"p","m","1","0">>), Text(<<"n","o","2">>) >>

\* lines 235-241 and 274-280: the CSV written when nothing is uploaded
SampleRows ==
    << <<Date(1), Num(65), Num(118), Num(40)>>,
       <<Date(60), Num(58), Num(100), Num(38)>>,
       <<Date(121), Num(50), Num(92), Num(35)>>,
       <<Date(182), Num(44), Num(85), Num(32)>> >>

Readings ==
    { <<Date(1), Num(1), Num(2)>>,
      <<Date(30), Num(2), Str(1)>>,
      <<Str(2), Na, Num(1)>>,
      <<Date(30), Tiny(1), Num(2)>>,
      <<Date(15), Num(2), Frac(25, 8)>>,
      <<Date(1), Num(3), Num(1)>> }

\* a long file: its first FreeRows rows are drawn from pool, row i after them is fill[i]
LongFile(nm, pool, fill) == [names |-> nm, pool |-> pool, fill |-> fill, cap |-> MaxRows]
ShortFile(nm, pool) == [names |-> nm, pool |-> pool, fill |-> [i \in {} |-> <<>>], cap |-> ShortRows]

Later == (FreeRows + 1)..(MaxRows + 1)

\* headers in mixed case, with blanks, a tab, a newline, a no-break space (160)
\* and an em space (8195) around the name, and names outside ASCII: 201 84 201
\* is the French for summer in capitals, 927 916 927 931 the Greek for street
Files ==
    { LongFile(<< Text(<<"D","a","t","e">>), Text(<<"n","o","2">>),
                  Text(<<"\n","P","M","2","5"," ">>) \o <<160>> >>,
               Readings, [i \in Later |-> <<Date(10 + i), Num(1), Num(2)>>]),
      LongFile(<< Text(<<"d","a","t","e">>), Text(<<"p","m","1","0">>), Text(<<"P","M","1","0">>) >>,
               { <<Date(1), Num(1), Num(2)>>, <<Date(30), Num(2), Str(1)>>,
                 <<Str(2), Na, Num(1)>>, <<Date(30), Num(3), Num(1)>> },
               [i \in Later |-> <<Date(10 + i), Num(1), Num(2)>>]),
      LongFile(<< Text(<<"d","a","y">>), Text(<<"c","o">>) >>,
               { <<Str(1), Num(2)>>, <<Na, Num(1)>>, <<Date(1), Num(3)>> },
               [i \in Later |-> <<Na, Num(1)>>]),
      ShortFile(<< Text(<<"D","a","t","e">>), Text(<<"d","a","t","e">>), Text(<<"p","m","2","5">>) >>,
                { <<Date(1), Date(2), Num(1)>>, <<Str(1), Date(1), Na>> }),
      ShortFile(<< Text(<<"c","i","t","y">>), Text(<<"P","M"," ","2","5">>), <<201, 84, 201>> >>,
                { <<Str(1), Num(1), Na>>, <<Str(2), Str(3), Num(2)>>, <<Na, Num(2), Date(3)>> }),
      ShortFile(<< Text(<<"D","a","y">>), Text(<<"T","i","m","e","S","t","a","m","p"," ">>),
                   Text(<<"o","3">>) >>,
                { <<Date(1), Date(2), Num(1)>>, <<Date(2), Date(1), Num(2)>>,
                  <<Date(3), Str(1), Na>> }),
      ShortFile(<< Text(<<"s","t","a","t","i","o","n">>), Text(<<"a","q","i">>),
                   Text(<<"p","m","2","_","5">>) >>,
                { <<Str(1), Bool(1), Num(1)>>, <<Str(2), Bool(0), Str(1)>>,
                  <<Str(1), Str(2), Na>> }),
      ShortFile(<< Text(<<"t","i","m","e","s","t","a","m","p">>), <<927, 916, 927, 931>> >>,
                { <<Date(2), Str(1)>>, <<Date(1), Str(2)>>, <<Str(3), Num(1)>> }),
      ShortFile(<< Text(<<"d","a","t","e","t","i","m","e">>), Text(<<"\t","D","A","Y">>),
                   Text(<<"A","Q","I">>) >>,
                { <<Date(1), Date(2), Tiny(1)>>, <<Date(2), Date(1), Num(2)>>,
                  <<Na, Date(3), Num(1)>> }),
      ShortFile(<< <<8195>> \o Text(<<"D","A","Y">>), Text(<<"s","o","2">>) >>,
                { <<Frac(3, 2), Frac(1, 8)>>, <<Num(1), Num(0)>>, <<Na, Num(0 - 1)>> }),
      LongFile(<< Text(<<"T","I","M","E","S","T","A","M","P">>), Text(<<"A","q","i">>) >>,
               { <<Date(1), Bool(1)>>, <<Date(2), Na>>, <<Date(3), Bool(0)>>, <<Date(4), Str(1)>> },
               [i \in Later |-> <<Date(10 + i), Bool(0)>>]) }

FileOf(nm) == CHOOSE f \in Files : f.names = nm

\* the rows a file can get as its row i
RowChoices(f, i) == IF i \in DOMAIN f.fill THEN {f.fill[i]} ELSE f.pool

NoCall == [ret |-> [status |-> "none", desc |-> <<>>],
           df |-> <<>>, date_col |-> None, pollutants |-> <<>>, outcomes |-> <<>>]

SetCallInit ==
    /\ ret = NoCall.ret
    /\ df = NoCall.df
    /\ date_col = NoCall.date_col
    /\ pollutants = NoCall.pollutants
    /\ outcomes = NoCall.outcomes

SetCall(c) ==
    /\ ret' = c.ret
    /\ df' = c.df
    /\ date_col' = c.date_col
    /\ pollutants' = c.pollutants
    /\ outcomes' = c.outcomes

NoText == [src |-> "none", id |-> 0, desc |-> <<>>]
NoTexts == [news |-> NoText, policy |-> NoText, innovations |-> NoText, data_summary |-> NoText]
NoArgs == [news |-> NoText, policy |-> NoText, data |-> NoText, innovation |-> NoText]

NoUpload == [present |-> FALSE, names |-> <<>>, rows |-> <<>>]

IdleRun ==
    /\ pc = <<"idle", "">>
    /\ kind = "none"
    /\ log = <<>>
    /\ texts = NoTexts
    /\ synth_args = NoArgs
    /\ tool_calls = 0
    /\ tool_out = NoText
    /\ uploaded = NoUpload
    /\ runs = 0

(***************************************************************************)
(* The summarizer on its own: a file is written row by row and the tool is *)
(* called on it, once for each state of the file.                          *)
(***************************************************************************)
Init ==
    /\ \/ \E f \in Files : names = f.names /\ rows = <<>>
       \/ names = SampleNames /\ rows = SampleRows
    /\ SetCallInit
    /\ IdleRun

AppendRow ==
    /\ names # SampleNames
    /\ Len(rows) < FileOf(names).cap
    /\ \E r \in RowChoices(FileOf(names), Len(rows) + 1) : rows' = Append(rows, r)
    /\ SetCall(NoCall)
    /\ UNCHANGED <<names, runVars>>

Analyze ==
    /\ ret = NoCall.ret
    /\ \E c \in analyze_air_quality_csv(names, rows) : SetCall(c)
    /\ UNCHANGED <<fileVars, runVars>>

Next == AppendRow \/ Analyze

Spec == Init /\ [][Next]_vars

(***************************************************************************)
(* The Streamlit script, lines 214-293: a click runs the script once.      *)
(* pc is <<step, phase>>: before the call of a step or inside it.          *)
(***************************************************************************)
Agents == {"news", "policy", "innovations", "data"}
Steps == Agents \cup {"synthesize"}

\* what agent.run can answer: resp.content as a string
LlmTexts == {[src |-> "llm", id |-> k, desc |-> <<>>] : k \in 1..2}

Uploads ==
    { NoUpload,
      [present |-> TRUE,
       names |-> << Text(<<"t","i","m","e","s","t","a","m","p">>), Text(<<"c","o">>) >>,
       rows |-> << <<Date(2), Num(1)>>, <<Date(1), Num(2)>> >>],
      [present |-> TRUE,
       names |-> << Text(<<"D","a","t","e">>), Text(<<"d","a","t","e">>) >>,
       rows |-> << <<Date(1), Date(2)>> >>] }

Event(ev, who, text) == [ev |-> ev, who |-> who, text |-> text]

\* lines 259-292: the statement after the call of a step
NextStep(k, step) ==
    IF k = "single" THEN "done"
    ELSE CASE step = "news" -> "policy"
           [] step = "policy" -> "innovations"
           [] step = "innovations" -> "data"
           [] step = "data" -> "synthesize"
           [] OTHER -> "done"

NewRun(k, first, up) ==
    /\ pc[1] \in {"idle", "done", "failed"}
    /\ runs < MaxRuns
    /\ runs' = runs + 1
    /\ kind' = k
    /\ pc' = <<first, IF first = "done" THEN "" ELSE "before">>
    /\ log' = <<>>
    /\ texts' = NoTexts
    /\ synth_args' = NoArgs
    /\ tool_calls' = 0
    /\ tool_out' = NoText
    /\ uploaded' = up
    /\ UNCHANGED <<fileVars, callVars>>

\* lines 255-257: mode "Full Task Force" and the button pressed
RunFullTaskForce == \E up \in Uploads : NewRun("full", "news", up)

\* lines 214-241 and 247-253: mode "Single Agent", an agent chosen, the button
\* pressed; the Data Analyst goes on with an upload or with the sample
RunSingleAgent ==
    \E up \in Uploads, choice \in Agents, sample_note \in BOOLEAN :
        /\ choice = "data" => up.present \/ sample_note
        /\ NewRun("single", choice, up)

\* lines 231-246: Data Analyst chosen, nothing uploaded, the sample not wanted
StopWithoutFile == NewRun("single", "done", NoUpload)

\* run_news, run_policy, run_innovations: agent.run(prompt) is entered
CallAgent(step) ==
    /\ step \in {"news", "policy", "innovations"}
    /\ pc = <<step, "before">>
    /\ pc' = <<step, "inside">>
    /\ log' = Append(log, Event("call", step, NoText))
    /\ UNCHANGED <<fileVars, callVars, kind, texts, synth_args, tool_calls, tool_out,
                   uploaded, runs>>

\* lines 231-253 and 271-288: the CSV is written to a temporary file, run_data is entered
CallData ==
    /\ pc = <<"data", "before">>
    /\ names' = (IF uploaded.present THEN uploaded.names ELSE SampleNames)
    /\ rows' = (IF uploaded.present THEN uploaded.rows ELSE SampleRows)
    /\ SetCall(NoCall)
    /\ pc' = <<"data", "inside">>
    /\ log' = Append(log, Event("call", "data", NoText))
    /\ UNCHANGED <<kind, texts, synth_args, tool_calls, tool_out, uploaded, runs>>

\* line 179: the agent's model asks for the tool, which runs on the file of the prompt;
\* stop_after_tool_call ends the agent's run after it
ToolCall ==
    /\ pc = <<"data", "inside">>
    /\ tool_calls = 0
    /\ \E c \in analyze_air_quality_csv(names, rows) :
          /\ SetCall(c)
          /\ tool_out' = [src |-> IF c.ret.status = "returned" THEN "tool" ELSE "error",
                          id |-> 0, desc |-> c.ret.desc]
    /\ tool_calls' = tool_calls + 1
    /\ UNCHANGED <<fileVars, pc, kind, log, texts, synth_args, uploaded, runs>>

\* line 180: what run_data can return: the tool's result when the tool ran, and
\* the model's own text when it did not ask for the tool or the tool failed
DataContents == IF tool_out.src = "tool" THEN {tool_out} ELSE LlmTexts

\* lines 259, 263, 267, 288: the Full Task Force branch binds the returned text
\* to news, policy, innovations, data_summary; the Single Agent branch (lines
\* 222, 225, 228, 253) hands it to st.write and binds nothing
SetText(step, text) ==
    texts' = CASE kind = "full" /\ step = "news" -> [texts EXCEPT !.news = text]
               [] kind = "full" /\ step = "policy" -> [texts EXCEPT !.policy = text]
               [] kind = "full" /\ step = "innovations" -> [texts EXCEPT !.innovations = text]
               [] kind = "full" /\ step = "data" -> [texts EXCEPT !.data_summary = text]
               [] OTHER -> texts

\* lines 152, 162, 173, 180, 195: the call returns str(resp.content)
ReturnFrom(step) ==
    /\ pc = <<step, "inside">>
    /\ \E text \in (IF step = "data" THEN DataContents ELSE LlmTexts) :
          /\ SetText(step, text)
          /\ log' = Append(log, Event("return", step, text))
    /\ pc' = <<NextStep(kind, step), IF NextStep(kind, step) = "done" THEN "" ELSE "before">>
    /\ UNCHANGED <<fileVars, callVars, kind, synth_args, tool_calls, tool_out, uploaded, runs>>

\* agent.run raises (no key, no network, the tool's error): the script run ends there
RaiseIn(step) ==
    /\ pc = <<step, "inside">>
    /\ pc' = <<"failed", "">>
    /\ log' = Append(log, Event("raise", step, NoText))
    /\ UNCHANGED <<fileVars, callVars, kind, texts, synth_args, tool_calls, tool_out,
                   uploaded, runs>>

\* a slip: innovations and data_summary passed in the order they were computed
SynthesizeArgsInCallOrder(t) ==
    [news |-> t.news, policy |-> t.policy, data |-> t.innovations, innovation |-> t.data_summary]

\* line 292: synthesize(news, policy, data_summary, innovations, city)
SynthesizeArgs(t) ==
    [news |-> t.news, policy |-> t.policy, data |-> t.data_summary, innovation |-> t.innovations]

CallSynthesize ==
    /\ pc = <<"synthesize", "before">>
    /\ synth_args' = SynthesizeArgs(texts)
    /\ pc' = <<"synthesize", "inside">>
    /\ log' = Append(log, Event("call", "synthesize", NoText))
    /\ UNCHANGED <<fileVars, callVars, kind, texts, tool_calls, tool_out, uploaded, runs>>

InitForce ==
    /\ names = <<>>
    /\ rows = <<>>
    /\ SetCallInit
    /\ IdleRun

NextForce ==
    \/ RunFullTaskForce
    \/ RunSingleAgent
    \/ StopWithoutFile
    \/ \E step \in Agents : CallAgent(step)
    \/ CallData
    \/ ToolCall
    \/ CallSynthesize
    \/ \E step \in Steps : ReturnFrom(step)
    \/ \E step \in Steps : RaiseIn(step)

TaskForce == InitForce /\ [][NextForce]_vars

(***************************************************************************)
(* What the claims speak of, read off the file and the report              *)
(***************************************************************************)
Ended == ret.status # "none"
Returned == ret.status = "returned"

Columns == NormalizeColumns(names)
HasColumn(name) == \E j \in 1..Len(names) : Columns[j] = name

\* the lines of the report that start with tag
Lines(tag) == {i \in 1..Len(ret.desc) : ret.desc[i][1] = tag}
TheLine(tag) == ret.desc[CHOOSE i \in Lines(tag) : TRUE]

\* the Pollutant Column Set and the date column, by their definitions
PollutantWords ==
    << Text(<<"p","m","2","5">>), Text(<<"p","m","2","_","5">>), Text(<<"p","m","1","0">>),
       Text(<<"n","o","2">>), Text(<<"s","o","2">>), Text(<<"c","o">>), Text(<<"o","3">>),
       Text(<<"a","q","i">>) >>
PollutantSet == {PollutantWords[i] : i \in {k \in 1..Len(PollutantWords) : HasColumn(PollutantWords[k])}}
VocabularyRank(name) == CHOOSE i \in 1..Len(PollutantWords) : PollutantWords[i] = name

WordDate == Text(<<"d","a","t","e">>)
WordTimestamp == Text(<<"t","i","m","e","s","t","a","m","p">>)
WordDay == Text(<<"d","a","y">>)
WordDatetime == Text(<<"d","a","t","e","t","i","m","e">>)

ByPriority ==
    IF HasColumn(WordDate) THEN WordDate
    ELSE IF HasColumn(WordTimestamp) THEN WordTimestamp
    ELSE IF HasColumn(WordDay) THEN WordDay
    ELSE IF HasColumn(WordDatetime) THEN WordDatetime
    ELSE None

\* the columns of the file with this name, and the one column when it is the only one
Named(name) == {j \in 1..Len(names) : Columns[j] = name}
Only(name) == CHOOSE j \in Named(name) : TRUE

Abs(x) == IF x < 0 THEN 0 - x ELSE x

\* the number in a cell, in units of 1 / Unit
Amount(c) == IF c[1] = "bool" THEN c[2] * Unit ELSE c[2]

RECURSIVE SumOver(_, _, _)
SumOver(frame, j, S) ==
    IF S = {} THEN 0
    ELSE LET i == CHOOSE x \in S : TRUE
         IN  Amount(frame[i][j]) + SumOver(frame, j, S \ {i})

\* f is the number num / (den * Unit) to two decimals: no further from it than
\* half a hundredth
ToTwoDecimals(f, num, den) ==
    LET w == den * Unit
        r == (IF f.neg THEN 0 - f.cents ELSE f.cents) - 100 * (num \div w)
    IN  /\ ~f.nan
        /\ 0 <= r /\ r <= 100
        /\ Abs(100 * (num % w) - r * w) <= w \div 2

\* the rows of S that hold a number in column j
NumbersIn(frame, j, S) == {i \in S : frame[i][j][1] = "num"}

MeansEntries == IF Lines("Means") = {} THEN <<>> ELSE TheLine("Means")[2]
TrendLabels == IF Lines("Simple trends") = {} THEN <<>> ELSE TheLine("Simple trends")[2]
EntriesOf(pol) == {i \in 1..Len(MeansEntries) : MeansEntries[i][1] = pol}
LabelsOf(pol) == {i \in 1..Len(TrendLabels) : TrendLabels[i][1] = pol}

(* C1: for every loaded dataset with a non-empty Pollutant Column Set the   *)
(* report has exactly one Means line, its entries in vocabulary order, and  *)
(* every pollutant column with at least one number has an entry that is the *)
(* mean over exactly its cells that are numbers, also when the column mixes *)
(* numbers and other text.                                                  *)
C1_MeansSkipNonNumeric ==
    (Returned /\ PollutantSet # {}) =>
        /\ Cardinality(Lines("Means")) = 1
        /\ \A a, b \in 1..Len(MeansEntries) :
               a < b => VocabularyRank(MeansEntries[a][1]) < VocabularyRank(MeansEntries[b][1])
        /\ \A pol \in PollutantSet :
               (Cardinality(Named(pol)) = 1 /\ NumbersIn(rows, Only(pol), 1..Len(rows)) # {}) =>
                   /\ Cardinality(EntriesOf(pol)) = 1
                   /\ \A e \in EntriesOf(pol) :
                          LET S == NumbersIn(rows, Only(pol), 1..Len(rows))
                          IN  ToTwoDecimals(MeansEntries[e][2], SumOver(rows, Only(pol), S),
                                            Cardinality(S))

(***************************************************************************)
(* The dates and the trend of a pollutant, from the file and from the      *)
(* frame the call ended with                                               *)
(***************************************************************************)
DateJ == Only(ByPriority)

\* the date column of the file holds numbers: they count from 1970-01-01
DateIsNumber(j) == rows # <<>> /\ \A i \in 1..Len(rows) : rows[i][j][1] \in {"num", "na"}

\* the point in time a cell of the date column stands for, as loaded or as
\* parsed: <<"at", t>>, or <<"none", 0>> when it is missing
Stamp(c, number) ==
    CASE c[1] \in {"date", "ts", "ns"} -> <<"at", c[2]>>
      [] c[1] = "num" /\ number -> <<"at", IF c[2] < 0 THEN 0 - (Abs(c[2]) \div Unit) ELSE c[2] \div Unit>>
      [] OTHER -> <<"none", 0>>

HasDate(c, number) == Stamp(c, number)[1] = "at"

HeadRows == 1..(Len(df) \div 4)
TailRows == (Len(df) - (Len(df) \div 4) + 1)..Len(df)
ValuesIn(j, S) == {i \in S : df[i][j][1] \in {"num", "bool"}}

\* the column of pol is the only one of its name and holds, empty cells
\* aside, numbers only or True and False only
Loaded(pol) ==
    /\ Cardinality(Named(pol)) = 1
    /\ df # <<>>
    /\ \/ \A i \in 1..Len(df) : df[i][Only(pol)][1] \in {"num", "na"}
       \/ \A i \in 1..Len(df) : df[i][Only(pol)][1] \in {"bool", "na"}
MeansDefined(pol) ==
    /\ Loaded(pol)
    /\ ValuesIn(Only(pol), HeadRows) # {}
    /\ ValuesIn(Only(pol), TailRows) # {}

\* tail mean minus head mean is DeltaNum / (DeltaDen * Unit)
DeltaNum(pol) ==
    SumOver(df, Only(pol), ValuesIn(Only(pol), TailRows)) * Cardinality(ValuesIn(Only(pol), HeadRows))
    - SumOver(df, Only(pol), ValuesIn(Only(pol), HeadRows)) * Cardinality(ValuesIn(Only(pol), TailRows))
DeltaDen(pol) ==
    Cardinality(ValuesIn(Only(pol), HeadRows)) * Cardinality(ValuesIn(Only(pol), TailRows))

\* the means differ by at least 1e-6: DeltaNum * 10^6 >= DeltaDen * 2^20
Differ(pol) ==
    \/ Abs(DeltaNum(pol)) >= 2 * DeltaDen(pol)
    \/ Abs(DeltaNum(pol)) * 15625 >= DeltaDen(pol) * 16384

DateSorted ==
    LET j == DateJ
        number == DateIsNumber(j)
    IN  \A i, k \in 1..Len(df) :
            (i < k /\ HasDate(df[k][j], number)) =>
                /\ HasDate(df[i][j], number)
                /\ Stamp(df[i][j], number)[2] <= Stamp(df[k][j], number)[2]

SomeDate == LET j == DateJ IN \E i \in 1..Len(rows) : HasDate(rows[i][j], DateIsNumber(j))

TrendsComputed ==
    /\ Returned
    /\ ByPriority # None
    /\ SomeDate
    /\ Len(rows) >= 8

LabelAsExpected(pol) ==
    IF MeansDefined(pol) /\ Differ(pol)
    THEN /\ Cardinality(LabelsOf(pol)) = 1
         /\ \A l \in LabelsOf(pol) :
                /\ TrendLabels[l][2] = (IF DeltaNum(pol) < 0 THEN "decreasing" ELSE "increasing")
                /\ ToTwoDecimals(TrendLabels[l][3], DeltaNum(pol), DeltaDen(pol))
    ELSE LabelsOf(pol) = {}

AllNonNumeric(pol) ==
    \A j \in Named(pol) :
        /\ \E i \in 1..Len(rows) : rows[i][j][1] # "na"
        /\ \A i \in 1..Len(rows) : rows[i][j][1] \in {"str", "bool", "date", "na"}

(* C2: for every dataset, a pollutant column whose values are all           *)
(* non-numeric appears in neither the Means line nor the Simple trends      *)
(* line, the call returns a report without raising, and a pollutant whose   *)
(* trend computation fails leaves the labels of the other pollutants as     *)
(* they are.                                                                *)
C2_NonNumericColumnsLeftOut ==
    (Ended /\ \E pol \in PollutantSet : AllNonNumeric(pol)) =>
        /\ Returned
        /\ \A pol \in PollutantSet :
               AllNonNumeric(pol) => EntriesOf(pol) = {} /\ LabelsOf(pol) = {}
        /\ TrendsComputed => \A pol \in PollutantSet : LabelAsExpected(pol)

\* the rows of a slice that hold a number for pol: text, True, False and
\* empty cells are left out of the sum and of the count
HeadNumbers(pol) == NumbersIn(df, Only(pol), HeadRows)
TailNumbers(pol) == NumbersIn(df, Only(pol), TailRows)

\* a mean is defined when its slice holds a number
SliceMeansDefined(pol) == HeadNumbers(pol) # {} /\ TailNumbers(pol) # {}

\* tail mean minus head mean is SliceDeltaNum / (SliceDeltaDen * Unit)
SliceDeltaNum(pol) ==
    SumOver(df, Only(pol), TailNumbers(pol)) * Cardinality(HeadNumbers(pol))
    - SumOver(df, Only(pol), HeadNumbers(pol)) * Cardinality(TailNumbers(pol))
SliceDeltaDen(pol) == Cardinality(HeadNumbers(pol)) * Cardinality(TailNumbers(pol))

\* the means differ by at least 1e-6
SliceMeansDiffer(pol) ==
    \/ Abs(SliceDeltaNum(pol)) >= 2 * SliceDeltaDen(pol)
    \/ Abs(SliceDeltaNum(pol)) * 15625 >= SliceDeltaDen(pol) * 16384

LabelDue(pol) ==
    IF SliceMeansDefined(pol) /\ SliceMeansDiffer(pol)
    THEN /\ Cardinality(LabelsOf(pol)) = 1
         /\ \A l \in LabelsOf(pol) :
                /\ TrendLabels[l][2] = (IF SliceDeltaNum(pol) < 0 THEN "decreasing" ELSE "increasing")
                /\ ToTwoDecimals(TrendLabels[l][3], SliceDeltaNum(pol), SliceDeltaDen(pol))
    ELSE LabelsOf(pol) = {}

(* C3: whenever trends are computed (a date column, a date that is not      *)
(* missing, at least 8 rows), the frame is sorted by date, the head and the *)
(* tail are its first and last floor(n/4) rows, and a pollutant named by    *)
(* one column has a label exactly when its head mean and its tail mean are  *)
(* both defined and differ by at least 1e-6, a mean being taken over the    *)
(* cells of the slice that hold a number and defined when there is one; the *)
(* label then reads decreasing when the tail mean minus the head mean is    *)
(* negative and increasing otherwise, with that difference to two decimals. *)
C3_TrendLabelsFollowQuartiles ==
    TrendsComputed =>
        /\ DateSorted
        /\ \A pol \in PollutantSet : Cardinality(Named(pol)) = 1 => LabelDue(pol)
        /\ \A l \in 1..Len(TrendLabels) : TrendLabels[l][1] \in PollutantSet

(* C4: the report has a Simple trends line only if the Pollutant Column Set *)
(* is non-empty, a date column exists, some row has a date that is not      *)
(* missing and there are at least 8 rows; and a Simple trends line carries  *)
(* at least one label.                                                      *)
C4_TrendsLineOnlyWhenDue ==
    Lines("Simple trends") # {} =>
        /\ PollutantSet # {}
        /\ ByPriority # None
        /\ SomeDate
        /\ Len(rows) >= 8
        /\ Cardinality(Lines("Simple trends")) = 1
        /\ Len(TrendLabels) >= 1

C4_Witness ==
    /\ Returned
    /\ Lines("Simple trends") # {}
    /\ Len(rows) = 8

\* a report without the line although trends were computed: no label came out
C4_WitnessNoLabel ==
    /\ TrendsComputed
    /\ PollutantSet # {}
    /\ Lines("Simple trends") = {}

FirstRows(k) == SubSeq(rows, 1, IF Len(rows) < k THEN Len(rows) ELSE k)

(* C5: with no date column and no pollutant column the report is the Rows   *)
(* line, the fixed explanatory line and the first min(5, row count) rows as *)
(* they were loaded, with no Date range line and no Means line; and a       *)
(* preview is in the report only when the Pollutant Column Set is empty.    *)
C5_PreviewWhenNothingRecognized ==
    /\ (Ended /\ ByPriority = None /\ PollutantSet = {}) =>
           /\ Returned
           /\ ret.desc = << <<"Rows", Len(rows)>>, NoColumns, <<"head", Columns, FirstRows(5)>> >>
           /\ Lines("Date range") = {} /\ Lines("Means") = {}
    /\ Lines("head") # {} => PollutantSet = {}

C5_Witness ==
    /\ Returned
    /\ ByPriority = None /\ PollutantSet = {}
    /\ Len(rows) > 5
    /\ Lines("head") # {}
    /\ Columns[3] = <<233, 116, 233>>

RowKey(r, j, number) == [k \in 1..Len(r) |-> IF k = j THEN Stamp(r[k], number) ELSE r[k]]
BagOfRows(rs, j, number) ==
    LET key == [i \in 1..Len(rs) |-> RowKey(rs[i], j, number)]
    IN  [r \in {key[i] : i \in 1..Len(rs)} |->
            Cardinality({i \in 1..Len(rs) : key[i] = r})]

(* C6: when a date column exists, parsing and sorting the dates only        *)
(* reorders the rows: the frame holds every loaded row, those with an       *)
(* unparseable date too; in the report's frame the rows with a date come    *)
(* first in ascending order and every row without one after them; and the   *)
(* Rows line carries the number of rows loaded.                             *)
C6_SortOnlyReorders ==
    (Ended /\ ByPriority # None) =>
        /\ Len(df) = Len(rows)
        /\ LET j == DateJ
               number == DateIsNumber(j)
           IN  BagOfRows(df, j, number) = BagOfRows(rows, j, number)
        /\ Returned =>
               /\ DateSorted
               /\ Cardinality(Lines("Rows")) = 1
               /\ TheLine("Rows") = <<"Rows", Len(rows)>>

C6_Witness ==
    /\ Returned
    /\ ByPriority # None
    /\ df # ParseDates(rows, DateJ)
    /\ Cardinality({i \in 1..Len(rows) : rows[i][DateJ][1] # "date"}) >= 2
    /\ Cardinality({i \in 1..Len(rows) : rows[i][DateJ][1] = "date"}) >= 2
    /\ rows[1][DateJ][1] # "date"

\* the same for a date column of numbers
C6_WitnessNumbers ==
    /\ Returned
    /\ ByPriority # None
    /\ DateIsNumber(DateJ)
    /\ df # ParseDates(rows, DateJ)
    /\ \E i \in 1..Len(rows) : rows[i][DateJ][1] = "na"
    /\ Lines("Date range") # {}

(* C7: a call fails only when the file cannot be loaded: for every dataset  *)
(* that loads, headers with two columns that normalize to the same name     *)
(* included, the call returns a report and does not raise.                  *)
C7_NeverRaisesOnLoadedData == Ended => Returned

(* C8: the date column chosen is the first name of the priority list date,  *)
(* timestamp, day, datetime that is among the normalized column names,      *)
(* whatever the order of the columns in the file; at most one is chosen;    *)
(* and none is chosen exactly when no candidate is present, and then the    *)
(* rows are not sorted and the report has no Date range line.               *)
C8_DateColumnByPriority ==
    Ended =>
        /\ date_col = ByPriority
        /\ (date_col = None) <=>
               (\A w \in {WordDate, WordTimestamp, WordDay, WordDatetime} : ~HasColumn(w))
        /\ date_col = None => Returned /\ df = rows /\ Lines("Date range") = {}

C8_Witness ==
    /\ Returned
    /\ date_col = WordDay
    /\ Columns[1] = WordDatetime
    /\ names[2] # WordDay
    /\ Lines("Date range") # {}

C8_WitnessNone ==
    /\ Returned
    /\ date_col = None
    /\ Len(rows) >= 2

(***************************************************************************)
(* The script run, read off its log of calls                               *)
(***************************************************************************)
FullOrder == <<"news", "policy", "innovations", "data", "synthesize">>

Called(who) == {i \in 1..Len(log) : log[i].ev = "call" /\ log[i].who = who}
ReturnedFrom(who) == {i \in 1..Len(log) : log[i].ev = "return" /\ log[i].who = who}
TextOf(who) == log[CHOOSE i \in ReturnedFrom(who) : TRUE].text

(* C9: in a Full Task Force run the calls are sequential and blocking, in   *)
(* the order news, policy, innovations, data, synthesize: a call starts     *)
(* only when the one before it has returned, none runs twice, a run that    *)
(* completes has made each call exactly once, and synthesize is called      *)
(* only after the four agents have returned, with exactly the four texts    *)
(* they returned; after a call that fails nothing more is called.           *)
C9_FullRunIsSequential ==
    kind = "full" =>
        /\ Len(log) <= 2 * Len(FullOrder)
        /\ \A i \in 1..Len(log) :
               IF i % 2 = 1
               THEN log[i].ev = "call" /\ log[i].who = FullOrder[(i + 1) \div 2]
               ELSE /\ log[i].who = log[i - 1].who
                    /\ log[i].ev \in {"return", "raise"}
                    /\ i < Len(log) => log[i].ev = "return"
        /\ Called("synthesize") # {} =>
               /\ \A who \in Agents : Cardinality(ReturnedFrom(who)) = 1
               /\ synth_args = [news |-> TextOf("news"), policy |-> TextOf("policy"),
                                data |-> TextOf("data"), innovation |-> TextOf("innovations")]
        /\ pc[1] = "done" => \A who \in Steps : Cardinality(Called(who)) = 1
                                                 /\ Cardinality(ReturnedFrom(who)) = 1
        /\ pc[1] = "failed" => log[Len(log)].ev = "raise" /\ Called("synthesize") \subseteq {Len(log) - 1}

C9_Witness ==
    /\ kind = "full"
    /\ pc[1] = "done"
    /\ runs = 2
    /\ synth_args.data.src = "tool"
    /\ synth_args.news # synth_args.policy
    /\ synth_args.innovation # synth_args.news

C9_WitnessFailed ==
    /\ kind = "full"
    /\ pc[1] = "failed"
    /\ Len(log) = 6
    /\ synth_args = NoArgs

(* C10: for every data-analysis request run_data causes exactly one call of *)
(* the summarizer on the given file and returns that call's output          *)
(* unchanged.                                                               *)
C10_OneSummarizerCallPerRequest ==
    \A i \in ReturnedFrom("data") :
        /\ tool_calls = 1
        /\ tool_out.src = "tool"
        /\ log[i].text = tool_out

====
